---- MODULE Spec2Model ----
(***************************************************************************)
(* The benchmark suite: six category programs (cpu, memory, storage, gpu,  *)
(* tensorflow, network).  Each collects a host profile, runs its units in  *)
(* the order of a dict literal, prints the outcome lines, appends a block  *)
(* to its log file and prints a confirmation line.                         *)
(*                                                                         *)
(* Floats are fixed-point numbers in hundredths (a duration of 125 is      *)
(* 1.25 s); the wall clock time.time() is the variable clock, in the same  *)
(* unit.  Text is TLA+ strings; a file and the console are sequences of    *)
(* lines.                                                                  *)
(***************************************************************************)
EXTENDS Integers, Sequences, FiniteSets, TLC

(***************************************************************************)
(* Bounds of the model.                                                    *)
(***************************************************************************)
\* program invocations in one behaviour (the log file outlives a process)
MaxRuns == 2
\* environment deviations in one behaviour: a unit body raising, an external
\* tool failing, the wall clock stepped backwards, a scratch file removed
MaxFaults == 1
\* real time one unit of work takes, in hundredths of a second
Tick == 25
\* size of a backwards step of the wall clock, in hundredths of a second
BackStep == 300
\* largest n and largest thread count benchmark_multi_threaded_prime is
\* called with when its threads are modelled
MaxN == 7
MaxThreads == 3

Categories == {"cpu", "memory", "storage", "gpu", "tensorflow", "network"}

(***************************************************************************)
(* Module constants of the programs.                                       *)
(***************************************************************************)
LOG_FILE(c) ==
  CASE c = "cpu"        -> "benchmark_log.txt"
    [] c = "memory"     -> "benchmark_memory_log.txt"
    [] c = "storage"    -> "benchmark_storage_log.txt"
    [] c = "gpu"        -> "benchmark_gpu_log.txt"
    [] c = "tensorflow" -> "tensorflow_benchmark_log.txt"
    [] c = "network"    -> "network_benchmark_log.txt"

TEST_FILE == "test_benchmark.dat"
IPERF_SERVER == "ping.online.net"

\* Python values: None and a float
None == [tag |-> "None", v |-> 0]
Float(x) == [tag |-> "float", v |-> x]

(***************************************************************************)
(* The suites: the dict literals of the runners, in source order.  test is *)
(* the dict key, unit the function called for it.                          *)
(***************************************************************************)
U(t, f) == [test |-> t, unit |-> f]

Suite(c) ==
  CASE c = "cpu" ->
         << U("Prime Number Calculation (Brute-Force)", "benchmark_prime_numbers"),
            U("Prime Number Calculation (Sieve of Eratosthenes)", "benchmark_sieve_of_eratosthenes"),
            U("SHA256 Hashing", "benchmark_sha256"),
            U("AES Encryption", "benchmark_aes_encryption"),
            U("GZIP Compression", "benchmark_gzip_compression"),
            U("NumPy Matrix Multiplication", "benchmark_numpy_operations"),
            U("Sorting Algorithm", "benchmark_sorting"),
            U("Multi-threaded Prime Calculation", "benchmark_multi_threaded_prime") >>
    [] c = "memory" ->
         << U("Memory Read/Write Speed", "benchmark_memory_read_write"),
            U("Memory Bandwidth Test", "benchmark_memory_bandwidth"),
            U("Memory Allocation Stress Test", "benchmark_memory_allocation"),
            U("Page Faults Test", "benchmark_page_faults"),
            U("Random Access Latency", "benchmark_random_access_latency") >>
    [] c = "storage" ->
         << U("Sequential Write Speed", "benchmark_sequential_write"),
            U("Sequential Read Speed", "benchmark_sequential_read"),
            U("Random Read/Write Speed", "benchmark_random_read_write"),
            U("File IOPS Test", "benchmark_file_iops"),
            U("File Deletion Performance", "benchmark_file_deletion"),
            U("Filesystem Latency Test", "benchmark_filesystem_latency") >>
    [] c = "gpu" ->
         << U("OpenCL Vector Addition", "benchmark_opencl_vector_addition"),
            U("Matrix Multiplication (CPU)", "benchmark_matrix_multiplication"),
            U("CPU Computation", "benchmark_cpu_computation") >>
    [] c = "tensorflow" ->
         << U("TensorFlow Inference Benchmark", "benchmark_inference"),
            U("TensorFlow Training Benchmark", "benchmark_training") >>
    [] c = "network" ->
         << U("Download Speed Test", "benchmark_download_speed"),
            U("Upload Speed Test", "benchmark_upload_speed"),
            U("Network Latency Test", "benchmark_latency"),
            U("Packet Loss Test", "benchmark_packet_loss"),
            U("Bandwidth Test (iperf3)", "benchmark_bandwidth"),
            U("DNS Resolution Speed", "benchmark_dns_resolution") >>

\* the params string a timed unit returns with its default arguments
Params(f) ==
  CASE f \in {"benchmark_prime_numbers", "benchmark_sieve_of_eratosthenes"} -> "n=50000"
    [] f \in {"benchmark_sha256", "benchmark_aes_encryption"} -> "iterations=100000"
    [] f = "benchmark_gzip_compression" -> "size=5000000 bytes"
    [] f = "benchmark_numpy_operations" -> "matrix_size=500x500"
    [] f = "benchmark_sorting" -> "n=1000000"
    [] f = "benchmark_multi_threaded_prime" -> "n=10000, threads=4"
    [] f \in {"benchmark_memory_read_write", "benchmark_memory_bandwidth"} -> "size=500MB"
    [] f = "benchmark_memory_allocation" -> "size=1000MB"
    [] f = "benchmark_page_faults" -> "iterations=1000000"
    [] f = "benchmark_random_access_latency" -> "iterations=100000"
    [] f = "benchmark_sequential_write" -> "size=500MB"
    [] f = "benchmark_sequential_read" -> "file=" \o TEST_FILE
    [] f = "benchmark_random_read_write" -> "block_size=4096B, iterations=100000"
    [] f = "benchmark_file_iops" -> "operations=10000"
    [] f \in {"benchmark_file_deletion", "benchmark_filesystem_latency"} -> "num_files=1000"
    [] f = "benchmark_opencl_vector_addition" -> "OpenCL Vector Addition (1048576 elements)"
    [] f = "benchmark_matrix_multiplication" -> "Matrix Multiplication (CPU)"
    [] f = "benchmark_cpu_computation" -> "CPU Computation (sum 0 to 9999999)"
    [] f = "benchmark_inference" -> "TensorFlow Inference (1 Epoch)"
    [] f = "benchmark_training" -> "TensorFlow Training (5 Epochs)"
    [] f = "benchmark_dns_resolution" -> "DNS Resolution Time"

(***************************************************************************)
(* Formatting.  Fmt2 is the format spec ".2f" on a float: sign, integer    *)
(* part, a point and exactly two digits.  Str is str() / "{}" of a value.  *)
(***************************************************************************)
Abs(x) == IF x < 0 THEN -x ELSE x

Digits2(n) == IF n < 10 THEN "0" \o ToString(n) ELSE ToString(n)

Fmt2(x) ==
  (IF x < 0 THEN "-" ELSE "") \o ToString(Abs(x) \div 100) \o "." \o Digits2(Abs(x) % 100)


\* "{}" of a value: a float prints as Fmt2 does here, None prints "None"
Str(r) == IF r.tag = "None" THEN "None" ELSE Fmt2(r.v)

\* float(text) on the numbers the external tools print
ParseFloat(text) ==
  CASE text = "23.45" -> 2345
    [] text = "0"     -> 0
    [] text = "94.10" -> 9410

\* time.strftime('%Y-%m-%d %H:%M:%S') of the wall clock: whole seconds
StrfTime(t) == "T" \o ToString(t \div 100)

(***************************************************************************)
(* The environment of one behaviour.                                       *)
(*   iperf3, ping : the tool is on PATH                                    *)
(*   opencl       : cl.get_platforms() is not empty                        *)
(*   partitions   : psutil.disk_partitions() is not empty                  *)
(*   ifaces       : keys of psutil.net_if_addrs()                          *)
(*   arg          : the --interface argument, NoInterface when not given   *)
(***************************************************************************)
NoInterface == "<None>"

Env(c) ==
  [ iperf3     : IF c = "network" THEN BOOLEAN ELSE {TRUE},
    ping       : IF c = "network" THEN BOOLEAN ELSE {TRUE},
    opencl     : IF c = "gpu" THEN BOOLEAN ELSE {TRUE},
    partitions : IF c = "storage" THEN BOOLEAN ELSE {TRUE},
    ifaces     : IF c = "network"
                   THEN {{"lo"}, {"lo", "eth0"}, {"lo", "wlan0"}, {"lo", "eth0", "wlan0"}}
                   ELSE {{"lo"}},
    arg        : IF c = "network" THEN {NoInterface, "usb0"} ELSE {NoInterface} ]

\* what the environment does to one step: what is "ok", "fail" (an external
\* tool ran and printed no result) or "raise" (the body raises); step is the
\* adjustment of the wall clock while the step runs
Event == [what : {"ok", "fail", "raise"}, step : {0, -BackStep}]

Cost(ev) == (IF ev.what = "ok" THEN 0 ELSE 1) + (IF ev.step = 0 THEN 0 ELSE 1)

\* units that call an external tool and look for its result in the output
ToolUnits == {"benchmark_latency", "benchmark_packet_loss", "benchmark_bandwidth"}

Events(f) == {ev \in Event : ev.what = "fail" => f \in ToolUnits}

(***************************************************************************)
(* get_default_interface and get_system_info.                              *)
(***************************************************************************)
get_default_interface(net_ifaces) ==
  IF "eth0" \in net_ifaces THEN "eth0"
  ELSE IF "wlan0" \in net_ifaces THEN "wlan0"
  ELSE NoInterface

KV(k, v) == [key |-> k, value |-> v]

\* the facts every category collects first
CommonFacts(cpu) ==
  << KV("CPU", cpu), KV("Architecture", "aarch64"),
     KV("Cores", "4"), KV("Physical Cores", "4") >>

TotalMemory == << KV("Total Memory (GB)", "7.63") >>
PythonVersion == << KV("Python Version", "3.11.2") >>

Returned(x) == [kind |-> "return", value |-> x, exc |-> ""]
Raised(e) == [kind |-> "raise", value |-> << >>, exc |-> e]

\* The dict literal is evaluated entry by entry; the first entry that raises
\* ends the call.  what = "raise" is a psutil call failing.
get_system_info(c, e, what) ==
  IF what = "raise" THEN Raised("psutil.Error")
  ELSE CASE c = "cpu" ->
              Returned(CommonFacts("Linux-6.1-aarch64") \o PythonVersion)
         [] c = "memory" ->
              Returned(CommonFacts("Linux-6.1-aarch64") \o TotalMemory \o
                << KV("Available Memory (GB)", "5.1"), KV("Used Memory (GB)", "2.2"),
                   KV("Memory Usage (%)", "33.2"), KV("Swap Total (GB)", "0.1"),
                   KV("Swap Used (GB)", "0.0") >> \o PythonVersion)
         [] c = "storage" ->
              IF ~e.partitions THEN Raised("IndexError")
              ELSE Returned(CommonFacts("Linux-6.1-aarch64") \o TotalMemory \o
                     << KV("Disk Type", "ext4"), KV("Total Disk Space (GB)", "58.37") >>
                     \o PythonVersion)
         [] c = "gpu" ->
              \* the module imports pyopencl as cl: the name pyopencl is unbound
              Raised("NameError")
         [] c = "tensorflow" ->
              Returned(CommonFacts("Linux-6.1-aarch64") \o TotalMemory \o PythonVersion \o
                << KV("TensorFlow Version", "2.15.0"), KV("GPU Available", "No") >>)
         [] c = "network" ->
              Returned(CommonFacts("Linux-6.1-aarch64") \o TotalMemory \o PythonVersion)


(***************************************************************************)
(* The units.  A unit either returns the pair (result, params) or raises;  *)
(* fs is the set of scratch paths that exist when it ends.  start and end  *)
(* are the values time.time() returns at the unit's two timestamps.        *)
(***************************************************************************)
Ret(result, params, fs) ==
  [kind |-> "return", result |-> result, params |-> params, exc |-> "", files |-> fs]

Raise(e, fs) ==
  [kind |-> "raise", result |-> None, params |-> "", exc |-> e, files |-> fs]

\* start_time = time.time(); <work>; end_time = time.time();
\* return end_time - start_time, params     (no try/except around the work)
benchmark_timed(f, ev, start, end, fs) ==
  IF ev.what = "raise" THEN Raise("Exception", fs)
  ELSE Ret(Float(end - start), Params(f), fs)

benchmark_sequential_write(ev, start, end, fs) ==
  IF ev.what = "raise" THEN Raise("OSError", fs \cup {TEST_FILE})
  ELSE Ret(Float(end - start), Params("benchmark_sequential_write"), fs \cup {TEST_FILE})

benchmark_sequential_read(ev, start, end, fs) ==
  IF TEST_FILE \notin fs THEN Ret(None, "File not found", fs)
  ELSE IF ev.what = "raise" THEN Raise("OSError", fs)
  ELSE Ret(Float(end - start), Params("benchmark_sequential_read"), fs)

benchmark_random_read_write(ev, start, end, fs) ==
  IF ev.what = "raise" THEN Raise("OSError", fs \cup {TEST_FILE})
  ELSE Ret(Float(end - start), Params("benchmark_random_read_write"), fs \cup {TEST_FILE})

\* every iops_test_<i>.tmp is removed right after it is written; a raise
\* between the two leaves the file of that iteration
benchmark_file_iops(ev, start, end, fs) ==
  IF ev.what = "raise" THEN Raise("OSError", fs \cup {"iops_test_0.tmp"})
  ELSE Ret(Float(end - start), Params("benchmark_file_iops"), fs)

benchmark_file_deletion(ev, start, end, fs) ==
  IF ev.what = "raise" THEN Raise("OSError", fs \cup {"test_delete"})
  ELSE Ret(Float(end - start), Params("benchmark_file_deletion"), fs)

benchmark_filesystem_latency(ev, start, end, fs) ==
  IF ev.what = "raise" THEN Raise("OSError", fs \cup {"latency_test"})
  ELSE Ret(Float(end - start), Params("benchmark_filesystem_latency"), fs)

\* cl.get_platforms()[0] comes first, outside any try
benchmark_opencl_vector_addition(e, ev, start, end, fs) ==
  IF ~e.opencl THEN Raise("IndexError", fs)
  ELSE benchmark_timed("benchmark_opencl_vector_addition", ev, start, end, fs)

\* the measurement speedtest reports, in Mbps
SpeedtestMbps(f) == IF f = "benchmark_download_speed" THEN 9412 ELSE 1187

\* download and upload: the whole body is inside try/except Exception
benchmark_speed(f, interface, ev, fs) ==
  IF ev.what = "raise" THEN Ret(None, "Error: speedtest failed", fs)
  ELSE LET speed == SpeedtestMbps(f)
       IN  Ret(Float(speed), Fmt2(speed) \o " Mbps (" \o interface \o ")", fs)

\* subprocess.run raises FileNotFoundError when the tool is not installed;
\* every exception of the body becomes (None, f"Error: {str(e)}")
PingMissing == "Error: [Errno 2] No such file or directory: 'ping'"

benchmark_latency(e, interface, ev, fs) ==
  IF ~e.ping THEN Ret(None, PingMissing, fs)
  ELSE IF ev.what = "raise" THEN Ret(None, "Error: ping failed", fs)
  ELSE IF ev.what = "fail" THEN Ret(None, "Ping failed on " \o interface, fs)
  ELSE LET avg_latency == "23.45"
       IN  Ret(Float(ParseFloat(avg_latency)),
               avg_latency \o " ms (" \o interface \o ")", fs)

benchmark_packet_loss(e, interface, ev, fs) ==
  IF ~e.ping THEN Ret(None, PingMissing, fs)
  ELSE IF ev.what = "raise" THEN Ret(None, "Error: ping failed", fs)
  ELSE IF ev.what = "fail"
         THEN Ret(None, "Packet loss data not found (" \o interface \o ")", fs)
  ELSE LET loss_percentage == "0"
       IN  Ret(Float(ParseFloat(loss_percentage)),
               loss_percentage \o " % (" \o interface \o ")", fs)

benchmark_bandwidth(e, interface, ev, fs) ==
  IF ~e.iperf3 THEN Ret(None, "iperf3 not found, please install it", fs)
  ELSE IF ev.what = "raise" THEN Ret(None, "Error: iperf3 failed", fs)
  ELSE IF ev.what = "fail" THEN Ret(None, "iperf3 test failed on " \o interface, fs)
  ELSE LET speed == "94.10"
       IN  Ret(Float(ParseFloat(speed)),
               "iperf3 Bandwidth to " \o IPERF_SERVER \o ": " \o speed
                 \o " Mbps (" \o interface \o ")", fs)

benchmark_dns_resolution(ev, start, end, fs) ==
  IF ev.what = "raise" THEN Ret(None, "Failed to resolve", fs)
  ELSE Ret(Float(end - start), Params("benchmark_dns_resolution"), fs)

\* the scratch paths unit f opens, creates or removes
ScratchPaths(f) ==
  CASE f \in {"benchmark_sequential_write", "benchmark_sequential_read",
              "benchmark_random_read_write"} -> {TEST_FILE}
    [] f = "benchmark_file_iops" -> {"iops_test_0.tmp"}
    [] f = "benchmark_file_deletion" -> {"test_delete"}
    [] f = "benchmark_filesystem_latency" -> {"latency_test"}
    [] OTHER -> {}

\* the call the dict literal makes for unit f
Call(f, e, interface, ev, start, end, fs) ==
  CASE f = "benchmark_sequential_write" -> benchmark_sequential_write(ev, start, end, fs)
    [] f = "benchmark_sequential_read" -> benchmark_sequential_read(ev, start, end, fs)
    [] f = "benchmark_random_read_write" -> benchmark_random_read_write(ev, start, end, fs)
    [] f = "benchmark_file_iops" -> benchmark_file_iops(ev, start, end, fs)
    [] f = "benchmark_file_deletion" -> benchmark_file_deletion(ev, start, end, fs)
    [] f = "benchmark_filesystem_latency" -> benchmark_filesystem_latency(ev, start, end, fs)
    [] f = "benchmark_opencl_vector_addition" ->
         benchmark_opencl_vector_addition(e, ev, start, end, fs)
    [] f \in {"benchmark_download_speed", "benchmark_upload_speed"} ->
         benchmark_speed(f, interface, ev, fs)
    [] f = "benchmark_latency" -> benchmark_latency(e, interface, ev, fs)
    [] f = "benchmark_packet_loss" -> benchmark_packet_loss(e, interface, ev, fs)
    [] f = "benchmark_bandwidth" -> benchmark_bandwidth(e, interface, ev, fs)
    [] f = "benchmark_dns_resolution" -> benchmark_dns_resolution(ev, start, end, fs)
    [] OTHER -> benchmark_timed(f, ev, start, end, fs)

(***************************************************************************)
(* Rendering of one outcome line, as the print loop and log_results do it. *)
(* ok is FALSE when the f-string raises TypeError (":.2f" applied to None).*)
(***************************************************************************)
Line(r, value) == r.test \o " (" \o r.params \o "): " \o value

\* f"{test} ({params}): {result:.2f} sec"
FormatSec(r) ==
  IF r.result.tag = "float"
    THEN [ok |-> TRUE, text |-> Line(r, Fmt2(r.result.v) \o " sec")]
    ELSE [ok |-> FALSE, text |-> ""]

\* the network program: ... if isinstance(result, (int, float)) else
\* f"{test} ({params}): {result}"
FormatNetwork(r) ==
  IF r.result.tag = "float"
    THEN [ok |-> TRUE, text |-> Line(r, Fmt2(r.result.v) \o " sec")]
    ELSE [ok |-> TRUE, text |-> Line(r, Str(r.result))]

Format(c, r) == IF c = "network" THEN FormatNetwork(r) ELSE FormatSec(r)

(***************************************************************************)
(* log_results: open(LOG_FILE, "a") and the writes, in order.  A file is   *)
(* [exists, lines].  When a write's f-string raises, the with statement    *)
(* closes the file and what was written before stays in it.                *)
(***************************************************************************)
Banner == "=================================================="

Title(c, now) ==
  CASE c = "cpu"        -> "CPU Benchmark Run "
    [] c = "memory"     -> "Memory Benchmark Run "
    [] c = "storage"    -> "Storage Benchmark Run "
    [] c = "network"    -> "Network Benchmark Run "
    [] c = "gpu"        -> "GPU Benchmark Run - " \o StrfTime(now)
    [] c = "tensorflow" -> "TensorFlow Benchmark Run - " \o StrfTime(now)

Label(c) ==
  CASE c = "cpu"        -> "Benchmark Results:"
    [] c = "memory"     -> "Memory Benchmark Results:"
    [] c = "storage"    -> "Storage Benchmark Results:"
    [] c = "network"    -> "Network Benchmark Results:"
    [] c = "gpu"        -> "GPU Benchmark Results:"
    [] c = "tensorflow" -> "TensorFlow Benchmark Results:"

RECURSIVE WriteInfo(_, _, _)
WriteInfo(system_info, i, lines) ==
  IF i > Len(system_info) THEN lines
  ELSE WriteInfo(system_info, i + 1,
                 Append(lines, system_info[i].key \o ": " \o system_info[i].value))

\* a slip: the log lines leave out the parameters
WriteResultsBare(c, rs, i, lines) ==
  [raised |-> FALSE,
   lines  |-> lines \o [j \in 1..Len(rs) |->
                          rs[j].test \o ": " \o Str(rs[j].result)]]

RECURSIVE WriteResults(_, _, _, _)
WriteResults(c, rs, i, lines) ==
  IF i > Len(rs) THEN [raised |-> FALSE, lines |-> lines]
  ELSE LET f == Format(c, rs[i])
       IN  IF ~f.ok THEN [raised |-> TRUE, lines |-> lines]
           ELSE WriteResults(c, rs, i + 1, Append(lines, f.text))

\* a slip: mode "w"
OpenTruncate(file) == << >>

\* mode "a": the file is created when absent and never truncated
OpenAppend(file) == IF file.exists THEN file.lines ELSE << >>

log_results(c, system_info, rs, file, now) ==
  LET head == OpenAppend(file) \o << Banner, Title(c, now), Banner >>
      body == WriteInfo(system_info, 1, head) \o << "", Label(c) >>
      w    == WriteResults(c, rs, 1, body)
  IN  [raised |-> w.raised,
       file   |-> [exists |-> TRUE,
                   lines  |-> IF w.raised THEN w.lines ELSE w.lines \o << "", "" >>]]


(***************************************************************************)
(* State.                                                                  *)
(*   cat, env  : the program that is run and its environment               *)
(*   run       : number of the current invocation of the program           *)
(*   pc        : position in the current invocation: "main", "info",       *)
(*               "units", "print", "log", "saved", "exit"                  *)
(*   faults    : deviations of the environment so far                      *)
(*   clock     : time.time()                                               *)
(*   files     : scratch paths that exist in the working directory         *)
(*   log       : the file LOG_FILE                                         *)
(*   console   : lines printed by the current invocation                   *)
(*   iface     : args.interface                                            *)
(*   info, results : system_info and the results dict, as ordered items    *)
(*   printed   : items of results the print loop has printed               *)
(*   exitCode  : exit status of the process, -1 while it runs              *)
(*   exc       : the exception that ended the process, "" when none        *)
(*   stamps    : for each unit called so far: its function, what its       *)
(*               external work did, time.time() when it began and ended,   *)
(*               the scratch paths it found                                *)
(*   prior     : content of the log file before the first invocation       *)
(*   logged    : arguments of the calls of log_results that returned       *)
(***************************************************************************)
VARIABLES cat, env, run, pc, faults, clock, files, log, console, iface,
          info, results, printed, exitCode, exc, stamps, prior, logged

rvars == << cat, env, run, pc, faults, clock, files, log, console, iface,
            info, results, printed, exitCode, exc, stamps, prior, logged >>

(***************************************************************************)
(* State of one call of benchmark_multi_threaded_prime(n, threads), used   *)
(* when the threads of the unit are modelled (SpecPrime).                  *)
(*   tn, tthreads : the arguments n and threads                            *)
(*   mpc          : position of the calling thread: "idle", "call",        *)
(*                  "spawn", "join", "stamp", "returned", "raised"         *)
(*   spawned      : threads started so far (len(threads_list))             *)
(*   joined       : threads the join loop has waited for                   *)
(*   worker       : per thread: state "new", "running" or "done", the      *)
(*                  bounds first and end of its range, the next num        *)
(*   primes_list  : the list the workers share                             *)
(***************************************************************************)
VARIABLES tn, tthreads, mpc, spawned, joined, worker, primes_list

tvars == << tn, tthreads, mpc, spawned, joined, worker, primes_list >>

vars == << rvars, tvars >>

\* no call of the unit is being looked into
ThreadsIdle ==
  /\ tn = 0
  /\ tthreads = 0
  /\ mpc = "idle"
  /\ spawned = 0
  /\ joined = 0
  /\ worker = << >>
  /\ primes_list = << >>

AbsentFile == [exists |-> FALSE, lines |-> << >>]

PriorLogs == {AbsentFile, [exists |-> TRUE, lines |-> << "earlier run", "" >>]}

Init ==
  /\ cat \in Categories
  /\ env \in Env(cat)
  /\ run = 1
  /\ pc = "main"
  /\ faults = 0
  /\ clock = 0
  /\ files = {}
  /\ log \in PriorLogs
  /\ console = << >>
  /\ iface = NoInterface
  /\ info = << >>
  /\ results = << >>
  /\ printed = 0
  /\ exitCode = -1
  /\ exc = ""
  /\ stamps = << >>
  /\ prior = log
  /\ logged = << >>
  /\ ThreadsIdle

\* the process ends: with status 0 when exception is "", else with the
\* traceback of an uncaught exception and status 1
Exit(exception) ==
  /\ pc' = "exit"
  /\ exc' = exception
  /\ exitCode' = IF exception = "" THEN 0 ELSE 1

(***************************************************************************)
(* The __main__ block.  Only the network program takes an argument.        *)
(***************************************************************************)
Main ==
  /\ pc = "main"
  /\ LET interface == IF env.arg # NoInterface THEN env.arg
                      ELSE get_default_interface(env.ifaces)
     IN  IF cat = "network" /\ interface = NoInterface
           THEN /\ console' = Append(console,
                      "No valid network interface found. Please specify manually.")
                /\ Exit("")
                /\ UNCHANGED iface
           ELSE /\ pc' = "info"
                /\ iface' = IF cat = "network" THEN interface ELSE iface
                /\ UNCHANGED << console, exitCode, exc >>
  /\ UNCHANGED << cat, env, run, faults, clock, files, log, info, results,
                  printed, stamps, prior, logged >>
  /\ UNCHANGED tvars

Running(c, interface) ==
  CASE c = "cpu"        -> "Running CPU Benchmarks..."
    [] c = "memory"     -> "Running Memory Benchmarks..."
    [] c = "storage"    -> "Running Storage Benchmarks..."
    [] c = "gpu"        -> "Running GPU Benchmarks..."
    [] c = "tensorflow" -> "Running TensorFlow Benchmarks..."
    [] c = "network"    -> "Running Network Benchmarks on " \o interface \o "..."

\* system_info = get_system_info(); print("Running ... Benchmarks...\n")
GetSystemInfo ==
  /\ pc = "info"
  /\ \E what \in {"ok", "raise"} :
       /\ faults + (IF what = "ok" THEN 0 ELSE 1) <= MaxFaults
       /\ faults' = faults + (IF what = "ok" THEN 0 ELSE 1)
       /\ LET r == get_system_info(cat, env, what)
          IN  IF r.kind = "raise"
                THEN /\ Exit(r.exc)
                     /\ UNCHANGED << info, console >>
                ELSE /\ info' = r.value
                     /\ console' = console \o << Running(cat, iface), "" >>
                     /\ pc' = "units"
                     /\ UNCHANGED << exitCode, exc >>
  /\ UNCHANGED << cat, env, run, clock, files, log, iface, results, printed,
                  stamps, prior, logged >>
  /\ UNCHANGED tvars

\* real time unit i of a suite of n units takes
Elapsed(n, i) == (n - i + 1) * Tick

Item(key, value) == [test |-> key, result |-> value.result, params |-> value.params]

\* a slip: the items kept in ascending order of result
DictSetByDuration(d, key, value) ==
  LET k == Cardinality({j \in 1..Len(d) : d[j].result.v <= value.result.v})
  IN  SubSeq(d, 1, k) \o << Item(key, value) >> \o SubSeq(d, k + 1, Len(d))

\* d[key] = value on a dict kept as its items in insertion order
RECURSIVE DictSet(_, _, _)
DictSet(d, key, value) ==
  IF d = << >> THEN << Item(key, value) >>
  ELSE IF d[1].test = key THEN << Item(key, value) >> \o Tail(d)
  ELSE << d[1] >> \o DictSet(Tail(d), key, value)

\* a slip: the runner goes on to print and log after the first unit
AfterUnitFirst(i, n) == "print"

\* a slip: log_results is called before the print loop
AfterUnitLogFirst(i, n) == IF i = n THEN "log" ELSE "units"

\* where the runner is after unit i of n returned: at the next call of the
\* dict literal, or past it at the print loop
AfterUnit(i, n) == IF i = n THEN "print" ELSE "units"

\* The dict literal of the runner calls the units one after the other; the
\* item of a unit is stored when its call returns.  An exception leaves the
\* literal and the runner.
RunUnit ==
  /\ pc = "units"
  /\ Len(stamps) < Len(Suite(cat))
  /\ LET n == Len(Suite(cat))
         i == Len(stamps) + 1
         u == Suite(cat)[i]
     IN  \E ev \in Events(u.unit) :
           /\ faults + Cost(ev) <= MaxFaults
           /\ faults' = faults + Cost(ev)
           /\ LET start == clock
                  end   == clock + Elapsed(n, i) + ev.step
                  out   == Call(u.unit, env, iface, ev, start, end, files)
              IN  /\ clock' = end
                  /\ files' = out.files
                  /\ stamps' = Append(stamps, [unit |-> u.unit, what |-> ev.what,
                                                start |-> start, end |-> end,
                                                files |-> files])
                  /\ IF out.kind = "raise"
                       THEN /\ Exit(out.exc)
                            /\ UNCHANGED results
                       ELSE /\ results' = DictSet(results, u.test, out)
                            /\ pc' = AfterUnit(i, n)
                            /\ UNCHANGED << exitCode, exc >>
  /\ UNCHANGED << cat, env, run, log, console, iface, info, printed, prior, logged >>
  /\ UNCHANGED tvars

\* for test, (result, params) in results.items(): print(...)   one iteration
PrintResult ==
  /\ pc = "print"
  /\ printed < Len(results)
  /\ LET f == Format(cat, results[printed + 1])
     IN  IF ~f.ok
           THEN /\ Exit("TypeError")
                /\ UNCHANGED << console, printed >>
           ELSE /\ console' = Append(console, f.text)
                /\ printed' = printed + 1
                /\ pc' = IF printed + 1 = Len(results) THEN "log" ELSE "print"
                /\ UNCHANGED << exitCode, exc >>
  /\ UNCHANGED << cat, env, run, faults, clock, files, log, iface, info, results,
                  stamps, prior, logged >>
  /\ UNCHANGED tvars

\* log_results(system_info, results)
LogResults ==
  /\ pc = "log"
  /\ LET w == log_results(cat, info, results, log, clock)
     IN  /\ log' = w.file
         /\ IF w.raised
              THEN /\ Exit("TypeError")
                   /\ UNCHANGED logged
              ELSE /\ pc' = "saved"
                   /\ logged' = Append(logged,
                        [system_info |-> info, results |-> results, now |-> clock])
                   /\ UNCHANGED << exitCode, exc >>
  /\ UNCHANGED << cat, env, run, faults, clock, files, console, iface, info,
                  results, printed, stamps, prior >>
  /\ UNCHANGED tvars

Saved(c) ==
  CASE c = "cpu"        -> "Benchmark results saved to:"
    [] c = "memory"     -> "Memory benchmark results saved to:"
    [] c = "storage"    -> "Storage benchmark results saved to:"
    [] c = "gpu"        -> "GPU benchmark results saved to:"
    [] c = "tensorflow" -> "TensorFlow benchmark results saved to:"
    [] c = "network"    -> "Network benchmark results saved to:"

\* print("\n... results saved to:", LOG_FILE) and the end of the program
PrintSaved ==
  /\ pc = "saved"
  /\ console' = console \o << "", Saved(cat) \o " " \o LOG_FILE(cat) >>
  /\ Exit("")
  /\ UNCHANGED << cat, env, run, faults, clock, files, log, iface, info, results,
                  printed, stamps, prior, logged >>
  /\ UNCHANGED tvars

\* the program is started again: a new process, the same working directory
NextRun ==
  /\ pc = "exit"
  /\ run < MaxRuns
  /\ run' = run + 1
  /\ pc' = "main"
  /\ console' = << >>
  /\ iface' = NoInterface
  /\ info' = << >>
  /\ results' = << >>
  /\ printed' = 0
  /\ exitCode' = -1
  /\ exc' = ""
  /\ stamps' = << >>
  /\ UNCHANGED << cat, env, faults, clock, files, log, prior, logged >>
  /\ UNCHANGED tvars

\* another process removes the scratch file between two units
ExternalRemove ==
  /\ pc = "units"
  /\ TEST_FILE \in files
  /\ faults < MaxFaults
  /\ faults' = faults + 1
  /\ files' = files \ {TEST_FILE}
  /\ UNCHANGED << cat, env, run, pc, clock, log, console, iface, info, results,
                  printed, exitCode, exc, stamps, prior, logged >>
  /\ UNCHANGED tvars

Next ==
  \/ Main
  \/ GetSystemInfo
  \/ RunUnit
  \/ PrintResult
  \/ LogResults
  \/ PrintSaved
  \/ NextRun
  \/ ExternalRemove

Spec == Init /\ [][Next]_vars

(***************************************************************************)
(* benchmark_multi_threaded_prime with its threads.  The calling thread    *)
(* starts one worker per range, joins them in order, takes the end         *)
(* timestamp and returns.  A worker runs find_primes over its range; one   *)
(* step of a worker is one iteration of its loop (list.append is atomic).  *)
(***************************************************************************)
\* int(num**0.5)
Isqrt(num) == CHOOSE r \in 0..num : r * r <= num /\ (r + 1) * (r + 1) > num

\* all(num % i != 0 for i in range(2, int(num**0.5) + 1))
PassesTest(num) == \A i \in 2..Isqrt(num) : num % i # 0

\* step = n // threads
Step(n, threads) == n \div threads

\* args=(i * step, (i + 1) * step, primes_list) of thread i, i from 0
Range(i, n, threads) ==
  [first |-> i * Step(n, threads), end |-> (i + 1) * Step(n, threads)]

\* a slip: join with a timeout returns while the thread still runs
JoinReturnsAtOnce(w) == TRUE

\* t.join() returns when the thread has terminated
JoinReturns(w) == w.state = "done"

PrimeInit ==
  /\ cat = "cpu"
  /\ env \in Env("cpu")
  /\ run = 1
  /\ pc = "units"
  /\ faults = 0
  /\ clock = 0
  /\ files = {}
  /\ log = AbsentFile
  /\ console = << >>
  /\ iface = NoInterface
  /\ info = << >>
  /\ results = << >>
  /\ printed = 0
  /\ exitCode = -1
  /\ exc = ""
  /\ stamps = << >>
  /\ prior = log
  /\ logged = << >>
  /\ tn \in 1..MaxN
  /\ tthreads \in 1..MaxThreads
  /\ mpc = "call"
  /\ spawned = 0
  /\ joined = 0
  /\ worker = [w \in 1..tthreads |-> [state |-> "new", first |-> 0, num |-> 0, end |-> 0]]
  /\ primes_list = << >>

\* start_time = time.time(); threads_list = []; primes_list = []; step = ...
Begin ==
  /\ mpc = "call"
  /\ mpc' = "spawn"
  /\ UNCHANGED << tn, tthreads, spawned, joined, worker, primes_list >>
  /\ UNCHANGED rvars

\* one iteration of the first loop: Thread(...), append, t.start().  start
\* raises RuntimeError when the system cannot start another thread; the
\* exception leaves the unit, the threads started before go on.
Spawn ==
  /\ mpc = "spawn"
  /\ spawned < tthreads
  /\ \E started \in BOOLEAN :
       IF started
         THEN /\ worker' = [worker EXCEPT ![spawned + 1] =
                    LET r == Range(spawned, tn, tthreads)
                    IN  [state |-> "running", first |-> r.first,
                         num |-> r.first, end |-> r.end]]
              /\ spawned' = spawned + 1
              /\ mpc' = IF spawned + 1 = tthreads THEN "join" ELSE "spawn"
         ELSE /\ mpc' = "raised"
              /\ UNCHANGED << worker, spawned >>
  /\ UNCHANGED << tn, tthreads, joined, primes_list >>
  /\ UNCHANGED rvars

\* find_primes: one iteration of for num in range(start, end)
Work(w) ==
  /\ worker[w].state = "running"
  /\ worker[w].num < worker[w].end
  /\ primes_list' = IF PassesTest(worker[w].num)
                      THEN Append(primes_list, worker[w].num)
                      ELSE primes_list
  /\ worker' = [worker EXCEPT ![w].num = @ + 1]
  /\ UNCHANGED << tn, tthreads, mpc, spawned, joined >>
  /\ UNCHANGED rvars

\* find_primes returns and the thread terminates
Finish(w) ==
  /\ worker[w].state = "running"
  /\ worker[w].num >= worker[w].end
  /\ worker' = [worker EXCEPT ![w].state = "done"]
  /\ UNCHANGED << tn, tthreads, mpc, spawned, joined, primes_list >>
  /\ UNCHANGED rvars

\* one iteration of the second loop: t.join()
Join ==
  /\ mpc = "join"
  /\ joined < tthreads
  /\ JoinReturns(worker[joined + 1])
  /\ joined' = joined + 1
  /\ mpc' = IF joined + 1 = tthreads THEN "stamp" ELSE "join"
  /\ UNCHANGED << tn, tthreads, spawned, worker, primes_list >>
  /\ UNCHANGED rvars

\* end_time = time.time(); return end_time - start_time, f"n=..., threads=..."
Return ==
  /\ mpc = "stamp"
  /\ mpc' = "returned"
  /\ UNCHANGED << tn, tthreads, spawned, joined, worker, primes_list >>
  /\ UNCHANGED rvars

PrimeNext ==
  \/ Begin
  \/ Spawn
  \/ \E w \in 1..MaxThreads + 1 : w <= tthreads /\ Work(w)
  \/ \E w \in 1..MaxThreads + 1 : w <= tthreads /\ Finish(w)
  \/ Join
  \/ Return

SpecPrime == PrimeInit /\ [][PrimeNext]_vars


(***************************************************************************)
(* Vocabulary of the properties.                                           *)
(***************************************************************************)
N == Len(Suite(cat))

SavedLine == Saved(cat) \o " " \o LOG_FILE(cat)

\* the run printed its results, appended its log block and confirmed it
Finished ==
  /\ pc = "exit"
  /\ console # << >>
  /\ console[Len(console)] = SavedLine

\* the network program found no interface to use
NoUsableInterface == cat = "network" /\ pc = "exit" /\ iface = NoInterface

\* lines the runner prints before the outcome lines
HeaderLines == 2

\* unit i was called while the external dependency it needs was absent
DependencyAbsent(i) ==
  LET f == stamps[i].unit
  IN  \/ f \in {"benchmark_latency", "benchmark_packet_loss"} /\ ~env.ping
      \/ f = "benchmark_bandwidth" /\ ~env.iperf3
      \/ f = "benchmark_opencl_vector_addition" /\ ~env.opencl
      \/ f = "benchmark_sequential_read" /\ TEST_FILE \notin stamps[i].files

\* unit i was called and its call stored no item: its body raised
BodyRaised(i) == i = Len(stamps) /\ Len(results) < Len(stamps)

(***************************************************************************)
(* C1.  Per-unit failure isolation: in every runner, when the body of unit *)
(* i raises, unit i still gets an outcome, every later unit is executed    *)
(* and the run reaches its finished state instead of aborting.             *)
(* Stated on the ended process: once a unit was called, all units of the   *)
(* suite were called, each has an outcome, and the run finished.           *)
(***************************************************************************)
C1_FailureIsolation ==
  (pc = "exit" /\ stamps # << >>) =>
     /\ Len(stamps) = N
     /\ Len(results) = Len(stamps)
     /\ \A i \in 1..Len(stamps) : ~BodyRaised(i)
     /\ Finished

(***************************************************************************)
(* C2.  A run that finishes reports exactly one outcome per unit of the    *)
(* suite, and the outcome lines are on the console and in the log in the   *)
(* order in which the units are listed and were called.                    *)
(***************************************************************************)
C2_ReportCountAndOrder ==
  Finished =>
     /\ Len(results) = N
     /\ Len(stamps) = N
     /\ Len(console) = HeaderLines + N + 2
     /\ \A i \in 1..N :
          /\ stamps[i].unit = Suite(cat)[i].unit
          /\ results[i].test = Suite(cat)[i].test
          /\ console[HeaderLines + i] = Format(cat, results[i]).text
          /\ log.lines[Len(log.lines) - 2 - N + i] = Format(cat, results[i]).text

\* a finished run of the eight cpu units whose durations are not ascending
C2_Witness ==
  /\ Finished
  /\ cat = "cpu"
  /\ Len(results) = 8
  /\ results[1].result.v > results[8].result.v

(***************************************************************************)
(* C3.  When the external dependency of a unit is absent (iperf3 or ping   *)
(* for the network suite, an OpenCL platform for the accelerator suite,    *)
(* the scratch file for the sequential read), the unit's outcome is a None *)
(* result with a reason, no error leaves the unit, and the run executes    *)
(* the remaining units and finishes.                                       *)
(***************************************************************************)
C3_MissingDependencySkips ==
  \A i \in 1..Len(stamps) :
     DependencyAbsent(i) =>
        /\ i <= Len(results)
        /\ results[i].result = None
        /\ results[i].params # ""
        /\ pc = "exit" => (Len(stamps) = N /\ Finished)

(***************************************************************************)
(* C4.  The network program without a usable interface reports an error   *)
(* to the user, runs no unit, appends nothing to the log and exits with a  *)
(* non-zero status.                                                        *)
(***************************************************************************)
C4_NoInterfaceExitsNonZero ==
  NoUsableInterface =>
     /\ console = << "No valid network interface found. Please specify manually." >>
     /\ stamps = << >>
     /\ log = prior
     /\ exitCode # 0


(***************************************************************************)
(* C5.  log_results is a pure append: with P the content of the log file   *)
(* before the first call and A, B, ... the reports of the calls made so    *)
(* far, the file holds P followed by the complete block of A, immediately  *)
(* followed by the complete block of B, ...; nothing of P or of an earlier *)
(* block is truncated or rewritten, and the file exists after a call even  *)
(* when it was absent before.                                              *)
(***************************************************************************)
\* the complete block of one report
Block(c, report) ==
  << Banner, Title(c, report.now), Banner >>
  \o [i \in 1..Len(report.system_info) |->
        report.system_info[i].key \o ": " \o report.system_info[i].value]
  \o << "", Label(c) >>
  \o [i \in 1..Len(report.results) |->
        report.results[i].test \o " (" \o report.results[i].params \o "): "
          \o (IF report.results[i].result.tag = "float"
                THEN Fmt2(report.results[i].result.v) \o " sec"
                ELSE "None")]
  \o << "", "" >>

RECURSIVE Blocks(_, _)
Blocks(c, reports) ==
  IF reports = << >> THEN << >>
  ELSE Block(c, Head(reports)) \o Blocks(c, Tail(reports))

C5_LogIsPureAppend ==
  /\ log.lines = prior.lines \o Blocks(cat, logged)
  /\ log.exists = (prior.exists \/ logged # << >>)

\* two different reports were appended to a file that had content before
C5_Witness ==
  /\ Len(logged) = 2
  /\ prior.lines # << >>
  /\ logged[1] # logged[2]

(***************************************************************************)
(* C6.  Rendering of an outcome that is not a success (a None result with  *)
(* a reason): in every runner the console line and the log line of such a  *)
(* unit are produced without raising, carry the reason and no duration,    *)
(* and the lines of the other units and the log block are written in full. *)
(***************************************************************************)
C6_NonSuccessRendered ==
  (pc = "exit" /\ Len(results) = N /\ \E i \in 1..N : results[i].result = None) =>
     /\ Finished
     /\ \A i \in 1..N :
          results[i].result = None =>
             /\ console[HeaderLines + i] = Line(results[i], "None")
             /\ log.lines[Len(log.lines) - 2 - N + i] = Line(results[i], "None")

(***************************************************************************)
(* C7.  Progressive console output: the outcome line of unit i is printed  *)
(* after unit i completes and before unit i+1 starts, and the confirmation *)
(* line comes after all outcome lines and after the log append.            *)
(***************************************************************************)
\* the confirmation line is on the console only after every outcome line and
\* after this run's block is in the log
ConfirmationLast ==
  Finished =>
     /\ printed = N
     /\ logged # << >>
     /\ logged[Len(logged)].results = results

\* the claim as stated: when unit i+1 has been started, line i is printed
C7_ProgressiveOutput ==
  /\ \A i \in 1..Len(stamps) : i > 1 => printed >= i - 1
  /\ ConfirmationLast

\* the claim as amended: no outcome line is printed before the last unit of
\* the suite has returned; the lines printed are those of the first units in
\* suite order; the confirmation line comes last
C7_OutputAfterAllUnits ==
  /\ printed > 0 => (Len(stamps) = N /\ Len(results) = N)
  /\ \A i \in 1..printed : console[HeaderLines + i] = Format(cat, results[i]).text
  /\ pc \in {"units", "print", "log", "saved"} => Len(console) = HeaderLines + printed
  /\ ConfirmationLast

\* the print loop is half way through the storage suite
C7_Witness ==
  /\ cat = "storage"
  /\ pc = "print"
  /\ printed = 3
  /\ Len(stamps) = 6

(***************************************************************************)
(* C8.  The duration recorded for a successful unit is >= 0 whatever the   *)
(* system clock does between the unit's two timestamps, a step backwards   *)
(* of the wall clock included.                                             *)
(***************************************************************************)
C8_DurationNonNegative ==
  \A i \in 1..Len(results) :
     results[i].result.tag = "float" => results[i].result.v >= 0

(***************************************************************************)
(* C9.  The host profile is collected best-effort: when one fact source is *)
(* unavailable or raises, get_system_info still returns a profile with the *)
(* other facts and the run goes on to execute its units.                   *)
(* Stated on the runner: a run that called get_system_info has a profile,  *)
(* and does not end before its first unit was called.                      *)
(***************************************************************************)
C9_ProfileBestEffort ==
  (pc = "exit" /\ ~NoUsableInterface) =>
     /\ info # << >>
     /\ stamps # << >>

(***************************************************************************)
(* C10.  The number rendered with the "sec" suffix on a success line is    *)
(* the time elapsed between the start and the end of that unit; no success *)
(* line carries a quantity that is not a duration.                         *)
(***************************************************************************)
C10_SecValueIsElapsedTime ==
  \A i \in 1..Len(results) :
     results[i].result.tag = "float" =>
        results[i].result.v = stamps[i].end - stamps[i].start


(***************************************************************************)
(* C11.  The units of one suite are mutually independent: no unit reads,   *)
(* overwrites or depends on a scratch path produced by another unit, so    *)
(* the kind of a unit's outcome (a number or None) is the same whether it  *)
(* runs alone or after other units of the suite.  In particular the three  *)
(* storage units on test_benchmark.dat do not share a scratch file.        *)
(***************************************************************************)
\* the outcome unit i would have had as the only unit run in an empty
\* working directory, its external work doing what it did
Alone(i) ==
  Call(stamps[i].unit, env, iface, [what |-> stamps[i].what, step |-> 0],
       stamps[i].start, stamps[i].end, {})

C11_UnitsIndependent ==
  /\ \A i \in 1..Len(results) :
        /\ Alone(i).kind = "return"
        /\ Alone(i).result.tag = results[i].result.tag
  /\ run = 1 =>
        \A i \in 1..Len(stamps) :
           stamps[i].files \cap ScratchPaths(stamps[i].unit) = {}


(***************************************************************************)
(* C12.  The concurrency of benchmark_multi_threaded_prime is fully        *)
(* joined: for every thread count and every interleaving, every worker     *)
(* that was started has terminated before the end timestamp is taken and   *)
(* before the unit returns; no worker runs or appends after that.          *)
(***************************************************************************)
C12_WorkersJoined ==
  mpc \in {"stamp", "returned"} =>
     /\ spawned = tthreads
     /\ \A w \in 1..spawned :
          /\ worker[w].state = "done"
          /\ worker[w].num = worker[w].end

\* three workers were started, did work, and the unit has returned
C12_Witness ==
  /\ mpc = "returned"
  /\ tthreads = 3
  /\ tn = 7
  /\ Len(primes_list) >= 4

(***************************************************************************)
(* C14.  Work partition of benchmark_multi_threaded_prime: for all n >= 1  *)
(* and threads >= 1 and every interleaving, the ranges                     *)
(* [i*step, (i+1)*step) are pairwise disjoint and together cover [0, n),   *)
(* so every candidate below n is examined by exactly one worker, and after *)
(* the joins the shared list holds each number that passes the test        *)
(* exactly once and holds only prime numbers.                              *)
(***************************************************************************)
IsPrime(k) == k >= 2 /\ \A d \in 2..(k - 1) : k % d # 0

Occurrences(list, k) == Cardinality({j \in 1..Len(list) : list[j] = k})

\* the workers that examined candidate k
Examiners(k) ==
  {w \in 1..tthreads : worker[w].state # "new" /\ worker[w].first <= k /\ k < worker[w].num}

C14_PartitionAndPrimes ==
  mpc = "returned" =>
     /\ \A k \in 0..(tn - 1) : Cardinality(Examiners(k)) = 1
     /\ \A k \in 0..(tn - 1) : PassesTest(k) => Occurrences(primes_list, k) = 1
     /\ \A j \in 1..Len(primes_list) : IsPrime(primes_list[j])


(***************************************************************************)
(* C13.  Every block log_results appends, in every category, is exactly:   *)
(* a banner line, a title line, a banner line, one "key: value" line per   *)
(* host-profile entry in profile order, a blank line, the "Results:"       *)
(* label line, one "name (params): value" line per outcome in outcome      *)
(* order, and two blank lines; and the outcome lines of the log are the    *)
(* outcome lines printed to the console in the same run.                   *)
(***************************************************************************)
\* lines of the block of a report
BlockLen(report) == 7 + Len(report.system_info) + Len(report.results)

\* number of log lines before the block of the j-th report
RECURSIVE BlockStart(_)
BlockStart(j) ==
  IF j = 1 THEN Len(prior.lines)
  ELSE BlockStart(j - 1) + BlockLen(logged[j - 1])

\* the texts a value takes in an outcome line
Values(r) ==
  IF r.result.tag = "float" THEN {Fmt2(r.result.v) \o " sec"} ELSE {Str(r.result)}

Layout(j) ==
  LET b == BlockStart(j)
      k == Len(logged[j].system_info)
      n == Len(logged[j].results)
      line(m) == log.lines[b + m]
  IN  /\ Len(log.lines) >= b + BlockLen(logged[j])
      /\ line(1) = Banner
      /\ line(2) = Title(cat, logged[j].now)
      /\ line(3) = Banner
      /\ \A i \in 1..k :
           line(3 + i) = logged[j].system_info[i].key \o ": "
                           \o logged[j].system_info[i].value
      /\ line(4 + k) = ""
      /\ line(5 + k) = Label(cat)
      /\ n = N
      /\ \A i \in 1..n :
           \E value \in Values(logged[j].results[i]) :
              line(5 + k + i) = Line(logged[j].results[i], value)
      /\ line(6 + k + n) = ""
      /\ line(7 + k + n) = ""

\* when log_results has returned: the blocks appended so far, the last one
\* being that of this run, which ends the file
C13_BlockLayout ==
  (pc = "saved" \/ Finished) =>
     /\ logged # << >>
     /\ \A j \in 1..Len(logged) : Layout(j)
     /\ Len(log.lines) = BlockStart(Len(logged)) + BlockLen(logged[Len(logged)])
     /\ logged[Len(logged)].system_info = info
     /\ \A i \in 1..N :
          log.lines[BlockStart(Len(logged)) + 5 + Len(info) + i]
            = console[HeaderLines + i]

\* the second run of the network program has logged a block in which one
\* outcome is a duration and another is not
C13_Witness ==
  /\ cat = "network"
  /\ Finished
  /\ Len(logged) = 2
  /\ \E i, j \in 1..N : /\ results[i].result.tag = "float"
                        /\ results[j].result.tag # "float"


(***************************************************************************)
(* C15.  A run that aborts leaves the log untouched: in every runner the   *)
(* log file changes only in the call of log_results, which is made after   *)
(* every unit has returned and every outcome line has been formatted and   *)
(* printed; the call appends its block whole, and the only step after it   *)
(* is the confirmation.  So when get_system_info, a unit or the console    *)
(* rendering raises, the log is as it was when the run started.            *)
(***************************************************************************)
C15_AbortLeavesLog ==
  [][ /\ log' # log =>
           /\ pc = "log"
           /\ Len(stamps) = N
           /\ Len(results) = N
           /\ printed = N
           /\ \A i \in 1..N : console[HeaderLines + i] = Format(cat, results[i]).text
           /\ pc' = "saved"
           /\ Len(logged') = Len(logged) + 1
      /\ (pc' = "exit" /\ exc' # "") => (log' = log /\ pc # "saved")
    ]_vars

\* the second run aborted in the print loop after the first had logged
C15_Witness ==
  /\ run = 2
  /\ pc = "exit"
  /\ exc = "TypeError"
  /\ Len(results) = N
  /\ Len(logged) = 1
  /\ log.lines = prior.lines \o Block(cat, logged[1])


(***************************************************************************)
(* C16.  Storage scratch cleanup: after run_storage_benchmarks completes   *)
(* normally, every scratch file and directory its units created            *)
(* (test_benchmark.dat, iops_test_<i>.tmp, test_delete, latency_test) has  *)
(* been removed: the working directory, which held none of them when the   *)
(* first run started, holds none of them.                                  *)
(***************************************************************************)
C16_ScratchRemoved ==
  (cat = "storage" /\ run = 1 /\ Finished) => files = {}

====
